---- MODULE Spec2Model ----
(***************************************************************************)
(* The lexer of src/src/lexer.rs as a state machine.                       *)
(*                                                                         *)
(* A Rust `char` is modelled as a TLA+ string: an ASCII character is the   *)
(* one-character string holding it, any other character is named by its   *)
(* code point ("U+00E9").  A Rust `&str` is the sequence of its chars; its *)
(* UTF-8 encoding is kept through utf8_len, so that str::len (bytes),      *)
(* chars().nth (chars) and the byte-range slice &input[a..b] are each      *)
(* computed the way the standard library computes them.                    *)
(***************************************************************************)
EXTENDS Integers, Sequences, FiniteSets, TLC

VARIABLES lexer, tokens, panicked, prev, buffer, pc, printed

vars == <<lexer, tokens, panicked, prev, buffer, pc, printed>>

(***************************************************************************)
(* Bounds of the model.                                                    *)
(***************************************************************************)
\* every string over Alphabet of at most MaxLen chars is an input
MaxLen == 3
\* every string over LineAlphabet of at most MaxLineLen chars, with its
\* newline, is a line the REPL may read
MaxLineLen == 2
\* next_token is called at most this many times more than the input has chars
ExtraCalls == 2

(***************************************************************************)
(* Characters.                                                             *)
(***************************************************************************)
\* '\0', the end sentinel of the lexer
NUL == "U+0000"
\* LATIN SMALL LETTER E WITH ACUTE: alphabetic, two bytes in UTF-8
EAcute == "U+00E9"
\* SECTION SIGN: neither alphabetic nor whitespace, two bytes in UTF-8
Section == "U+00A7"
\* NO-BREAK SPACE: White_Space, two bytes in UTF-8
Nbsp == "U+00A0"
\* EURO SIGN: neither alphabetic nor whitespace, three bytes in UTF-8
Euro == "U+20AC"

AsciiLetters ==
    {"a", "b", "c", "d", "e", "f", "g", "h", "i", "j", "k", "l", "m",
     "n", "o", "p", "q", "r", "s", "t", "u", "v", "w", "x", "y", "z",
     "A", "B", "C", "D", "E", "F", "G", "H", "I", "J", "K", "L", "M",
     "N", "O", "P", "Q", "R", "S", "T", "U", "V", "W", "X", "Y", "Z"}

AsciiDigits == {"0", "1", "2", "3", "4", "5", "6", "7", "8", "9"}

\* is_whitespace as a test for space and newline only
is_whitespace_space_newline(c) == c \in {" ", "\n"}

\* char::is_whitespace
is_whitespace(c) == c \in {" ", "\t", "\n", "\r", Nbsp}

\* char::is_alphabetic
is_alphabetic(c) == c \in AsciiLetters \cup {EAcute}

\* char::is_digit(10)
is_digit(c) == c \in AsciiDigits

\* char::to_digit(10) of a decimal digit
to_digit(c) ==
    CASE c = "0" -> 0 [] c = "1" -> 1 [] c = "2" -> 2 [] c = "3" -> 3
      [] c = "4" -> 4 [] c = "5" -> 5 [] c = "6" -> 6 [] c = "7" -> 7
      [] c = "8" -> 8 [] c = "9" -> 9

\* char::len_utf8
utf8_len(c) ==
    CASE c \in {EAcute, Section, Nbsp} -> 2
      [] c = Euro -> 3
      [] OTHER -> 1

(***************************************************************************)
(* Strings: str::len, chars().nth, is_char_boundary and the byte slice.    *)
(***************************************************************************)
\* the byte offset at which the char of index k (from 0) starts: one byte
\* for each of the k chars before it, and one more for each byte of theirs
\* past the first
byte_offset(s, k) ==
    k + Cardinality({i \in 1..k : utf8_len(s[i]) >= 2})
      + Cardinality({i \in 1..k : utf8_len(s[i]) >= 3})
      + Cardinality({i \in 1..k : utf8_len(s[i]) >= 4})

\* str::len: the length in bytes
len(s) == byte_offset(s, Len(s))

\* the None of Option<char>
None == "None"

\* str::chars().nth(n)
chars_nth(s, n) == IF n < Len(s) THEN s[n + 1] ELSE None

\* str::is_char_boundary
is_char_boundary(s, i) == \E k \in 0..Len(s) : byte_offset(s, k) = i

\* the index of the char that starts at byte i, a char boundary
char_at_byte(s, i) == CHOOSE k \in 0..Len(s) : byte_offset(s, k) = i

\* whether &s[a..b] is a valid range: the slice panics otherwise
slice_ok(s, a, b) ==
    a <= b /\ b <= len(s) /\ is_char_boundary(s, a) /\ is_char_boundary(s, b)

\* &s[a..b], for a valid range of bytes
str_slice(s, a, b) == SubSeq(s, char_at_byte(s, a) + 1, char_at_byte(s, b))

(***************************************************************************)
(* i64.  TLC's integers have 32 bits, so a magnitude up to 2^63 is kept as *)
(* three limbs <<hi, mid, lo>> in base 10^7: hi * 10^14 + mid * 10^7 + lo. *)
(***************************************************************************)
LimbBase == 10 ^ 7

\* i64::MAX = 9223372036854775807
I64MaxMag == <<92233, 7203685, 4775807>>
\* the magnitude of i64::MIN = -9223372036854775808
I64MinMag == <<92233, 7203685, 4775808>>

ZeroMag == <<0, 0, 0>>

mag_le(m, w) ==
    \/ m[1] < w[1]
    \/ m[1] = w[1] /\ m[2] < w[2]
    \/ m[1] = w[1] /\ m[2] = w[2] /\ m[3] <= w[3]

\* m * 10 + d on limbs
mul10_add(m, d) ==
    LET x0 == m[3] * 10 + d
        x1 == m[2] * 10 + (x0 \div LimbBase)
        x2 == m[1] * 10 + (x1 \div LimbBase)
    IN  <<x2, x1 % LimbBase, x0 % LimbBase>>

I64(neg, mag) == [neg |-> neg /\ mag # ZeroMag, mag |-> mag]

ParseErr == [ok |-> FALSE, val |-> I64(FALSE, ZeroMag)]

RECURSIVE parse_digits(_, _, _, _)
\* the digit loop of from_str_radix: checked_mul(10), then checked_add(digit)
\* (checked_sub for a negative literal); the first overflow or non-digit
\* ends the parse with an error
parse_digits(s, i, neg, acc) ==
    IF i > Len(s) THEN [ok |-> TRUE, val |-> I64(neg, acc)]
    ELSE IF ~is_digit(s[i]) THEN ParseErr
    ELSE LET next == mul10_add(acc, to_digit(s[i]))
         IN  IF mag_le(next, IF neg THEN I64MinMag ELSE I64MaxMag)
             THEN parse_digits(s, i + 1, neg, next)
             ELSE ParseErr

\* str::parse::<i64>: an optional sign, then at least one decimal digit
parse_i64(s) ==
    IF Len(s) = 0 THEN ParseErr
    ELSE IF s[1] \in {"+", "-"}
         THEN IF Len(s) = 1 THEN ParseErr
              ELSE parse_digits(s, 2, s[1] = "-", ZeroMag)
         ELSE parse_digits(s, 1, FALSE, ZeroMag)

(***************************************************************************)
(* Tokens.                                                                 *)
(***************************************************************************)
NoVal == I64(FALSE, ZeroMag)

Tok(type) == [type |-> type, text |-> <<>>, val |-> NoVal]
Ident(text) == [type |-> "Ident", text |-> text, val |-> NoVal]
IntTok(val) == [type |-> "Int", text |-> <<>>, val |-> val]

EOF == Tok("EOF")
Illegal == Tok("Illegal")

(***************************************************************************)
(* The Lexer.                                                              *)
(***************************************************************************)
\* read_char setting position after read_position has been incremented
read_char_position_late(l) ==
    [l EXCEPT
       !.ch = IF l.read_position >= len(l.input)
              THEN NUL
              ELSE LET c == chars_nth(l.input, l.read_position)
                   IN  IF c = None THEN NUL ELSE c,
       !.position = l.read_position + 1,
       !.read_position = l.read_position + 1]

\* read_char taking the char at position instead of read_position
read_char_at_position(l) ==
    [l EXCEPT
       !.ch = IF l.read_position >= len(l.input)
              THEN NUL
              ELSE LET c == chars_nth(l.input, l.position)
                   IN  IF c = None THEN NUL ELSE c,
       !.position = l.read_position,
       !.read_position = l.read_position + 1]

\* Lexer::read_char
read_char(l) ==
    [l EXCEPT
       !.ch = IF l.read_position >= len(l.input)
              THEN NUL
              ELSE LET c == chars_nth(l.input, l.read_position)
                   IN  IF c = None THEN NUL ELSE c,
       !.position = l.read_position,
       !.read_position = l.read_position + 1]

\* new without its call of read_char
new_without_read_char(input) ==
    [input |-> input, position |-> 0, read_position |-> 0, ch |-> NUL]

\* Lexer::new
new(input) ==
    read_char([input |-> input, position |-> 0, read_position |-> 0, ch |-> NUL])

\* peek_next reading at position instead of read_position
peek_next_at_position(l) ==
    IF l.position >= len(l.input)
    THEN NUL
    ELSE chars_nth(l.input, l.position)

\* Lexer::peek_next; None is the failed unwrap
peek_next(l) ==
    IF l.read_position >= len(l.input)
    THEN NUL
    ELSE chars_nth(l.input, l.read_position)

RECURSIVE skip_whitespace(_)
\* the loop that opens next_token
skip_whitespace(l) ==
    IF is_whitespace(l.ch) THEN skip_whitespace(read_char(l)) ELSE l

RECURSIVE skip_word(_)
\* the loop of read_word
skip_word(l) ==
    IF is_alphabetic(l.ch) \/ l.ch = "_" THEN skip_word(read_char(l)) ELSE l

RECURSIVE skip_digits(_)
\* the loop of read_int
skip_digits(l) ==
    IF is_digit(l.ch) THEN skip_digits(read_char(l)) ELSE l

\* what a call gives back: the lexer it leaves, and the token, or a panic
Returned(l, token) == [lexer |-> l, token |-> token, panic |-> FALSE]
Panic(l) == [lexer |-> l, token |-> Tok("Panic"), panic |-> TRUE]

\* the keyword table without its entry for "if"
keyword_without_if(word) ==
    CASE word = <<"f", "n">> -> Tok("Function")
      [] word = <<"l", "e", "t">> -> Tok("Let")
      [] word = <<"t", "r", "u", "e">> -> Tok("True")
      [] word = <<"e", "l", "s", "e">> -> Tok("Else")
      [] word = <<"f", "a", "l", "s", "e">> -> Tok("False")
      [] word = <<"r", "e", "t", "u", "r", "n">> -> Tok("Return")
      [] OTHER -> Ident(word)

\* the keyword table of read_word
keyword(word) ==
    CASE word = <<"f", "n">> -> Tok("Function")
      [] word = <<"l", "e", "t">> -> Tok("Let")
      [] word = <<"t", "r", "u", "e">> -> Tok("True")
      [] word = <<"i", "f">> -> Tok("If")
      [] word = <<"e", "l", "s", "e">> -> Tok("Else")
      [] word = <<"f", "a", "l", "s", "e">> -> Tok("False")
      [] word = <<"r", "e", "t", "u", "r", "n">> -> Tok("Return")
      [] OTHER -> Ident(word)

\* Lexer::read_word
read_word(l) ==
    LET idx == l.position
        m == skip_word(l)
    IN  IF slice_ok(m.input, idx, m.position)
        THEN Returned(m, keyword(str_slice(m.input, idx, m.position)))
        ELSE Panic(m)

\* Lexer::read_int
read_int(l) ==
    LET idx == l.position
        m == skip_digits(l)
    IN  IF slice_ok(m.input, idx, m.position)
        THEN LET r == parse_i64(str_slice(m.input, idx, m.position))
             IN  IF r.ok THEN Returned(m, IntTok(r.val)) ELSE Panic(m)
        ELSE Panic(m)

\* the arms of next_token for > < ! =
compare(l, two, one) ==
    LET c == peek_next(l)
    IN  IF c = None THEN Panic(l)
        ELSE IF c = "=" THEN Returned(read_char(read_char(l)), Tok(two))
        ELSE Returned(read_char(l), Tok(one))

\* the arms of next_token for the characters that are a token of their own
single(c) ==
    CASE c = "," -> Tok("Comma")
      [] c = ";" -> Tok("Semicolon")
      [] c = "(" -> Tok("LParen")
      [] c = ")" -> Tok("RParen")
      [] c = "{" -> Tok("LBrace")
      [] c = "}" -> Tok("RBrace")
      [] c = "+" -> Tok("Plus")
      [] c = "-" -> Tok("Minus")
      [] c = "*" -> Tok("Asterisk")
      [] c = "/" -> Tok("Slash")

Singles == {",", ";", "(", ")", "{", "}", "+", "-", "*", "/"}

\* the last two arms returning their token without the read_char that
\* follows the match
misc_without_read_char(l) ==
    IF l.ch = NUL THEN Returned(l, EOF) ELSE Returned(l, Illegal)

\* the last two arms of the match of next_token, '\0' and _, with the
\* read_char that follows the match
misc(l) ==
    IF l.ch = NUL
    THEN Returned(read_char(l), EOF)
    ELSE Returned(read_char(l), Illegal)

\* the match of next_token, on the lexer left by the whitespace loop
classify(l) ==
    CASE l.ch \in Singles -> Returned(read_char(l), single(l.ch))
      [] l.ch = ">" -> compare(l, "GTE", "GT")
      [] l.ch = "<" -> compare(l, "LTE", "LT")
      [] l.ch = "!" -> compare(l, "NotEq", "Bang")
      [] l.ch = "=" -> compare(l, "Eq", "Assign")
      [] OTHER ->
           IF is_alphabetic(l.ch) THEN read_word(l)
           ELSE IF is_digit(l.ch) THEN read_int(l)
           ELSE misc(l)

\* Lexer::next_token
next_token(l) == classify(skip_whitespace(l))

(***************************************************************************)
(* The inputs: every string over Alphabet of at most MaxLen chars, and the *)
(* scenarios (the input of tests::it_works among them).                    *)
(***************************************************************************)
Alphabet ==
    {" ", "a", "_", "0", "1", "=", "<", "!", ";", "+", "-", "@",
     NUL, EAcute, Section}

Strings(n) == UNION {[1..k -> Alphabet] : k \in 0..n}

\* the twelve spaces that open the lines of the test's input
Indent == <<" ", " ", " ", " ", " ", " ", " ", " ", " ", " ", " ", " ">>

\* the input of tests::it_works
TestInput ==
    <<"l", "e", "t", " ", "f", "i", "v", "e", " ", "=", " ", "5", ";", "\n">> \o
    Indent \o <<"l", "e", "t", " ", "t", "e", "n", " ", "=", " ", "1", "0", ";", "\n">> \o
    <<"\n">> \o
    Indent \o <<"l", "e", "t", " ", "a", "d", "d", " ", "=", " ", "f", "n", "(", "x", ",", " ", "y", ")", " ", "{", "\n">> \o
    Indent \o <<" ", " ", " ", " ", "x", " ", "+", " ", "y", ";", "\n">> \o
    Indent \o <<"}", ";", "\n">> \o
    Indent \o <<"\n">> \o
    Indent \o <<"l", "e", "t", " ", "r", "e", "s", "u", "l", "t", " ", "=", " ", "a", "d", "d", "(", "f", "i", "v", "e", ",", " ", "t", "e", "n", ")", ";", "\n">> \o
    Indent \o <<"!", "-", "/", "*", "5", ";", "\n">> \o
    Indent \o <<"5", " ", "<", " ", "1", "0", " ", ">", " ", "5", ";", "\n">> \o
    Indent \o <<"\n">> \o
    Indent \o <<"i", "f", " ", "(", "5", " ", "<", " ", "1", "0", ")", " ", "{", "\n">> \o
    Indent \o <<" ", " ", " ", " ", "r", "e", "t", "u", "r", "n", " ", "t", "r", "u", "e", ";", "\n">> \o
    Indent \o <<"}", " ", "e", "l", "s", "e", " ", "{", "\n">> \o
    Indent \o <<" ", " ", " ", " ", "r", "e", "t", "u", "r", "n", " ", "f", "a", "l", "s", "e", ";", "\n">> \o
    Indent \o <<"}", "\n">> \o
    Indent \o <<"\n">> \o
    Indent \o <<"1", "0", " ", "!", "=", " ", "9", ";", "\n">> \o
    Indent \o <<"1", "0", " ", "=", "=", " ", "1", "0", ";", "\n">> \o
    Indent

\* the tokens tests::it_works expects of TestInput
ParsedCorrectly ==
    <<Tok("Let"), Ident(<<"f", "i", "v", "e">>), Tok("Assign"),
      IntTok(I64(FALSE, <<0, 0, 5>>)), Tok("Semicolon"), Tok("Let"),
      Ident(<<"t", "e", "n">>), Tok("Assign"),
      IntTok(I64(FALSE, <<0, 0, 10>>)), Tok("Semicolon"), Tok("Let"),
      Ident(<<"a", "d", "d">>), Tok("Assign"), Tok("Function"),
      Tok("LParen"), Ident(<<"x">>), Tok("Comma"), Ident(<<"y">>),
      Tok("RParen"), Tok("LBrace"), Ident(<<"x">>), Tok("Plus"),
      Ident(<<"y">>), Tok("Semicolon"), Tok("RBrace"), Tok("Semicolon"),
      Tok("Let"), Ident(<<"r", "e", "s", "u", "l", "t">>), Tok("Assign"),
      Ident(<<"a", "d", "d">>), Tok("LParen"), Ident(<<"f", "i", "v", "e">>),
      Tok("Comma"), Ident(<<"t", "e", "n">>), Tok("RParen"),
      Tok("Semicolon"), Tok("Bang"), Tok("Minus"), Tok("Slash"),
      Tok("Asterisk"), IntTok(I64(FALSE, <<0, 0, 5>>)), Tok("Semicolon"),
      IntTok(I64(FALSE, <<0, 0, 5>>)), Tok("LT"),
      IntTok(I64(FALSE, <<0, 0, 10>>)), Tok("GT"),
      IntTok(I64(FALSE, <<0, 0, 5>>)), Tok("Semicolon"), Tok("If"),
      Tok("LParen"), IntTok(I64(FALSE, <<0, 0, 5>>)), Tok("LT"),
      IntTok(I64(FALSE, <<0, 0, 10>>)), Tok("RParen"), Tok("LBrace"),
      Tok("Return"), Tok("True"), Tok("Semicolon"), Tok("RBrace"),
      Tok("Else"), Tok("LBrace"), Tok("Return"), Tok("False"),
      Tok("Semicolon"), Tok("RBrace"), IntTok(I64(FALSE, <<0, 0, 10>>)),
      Tok("NotEq"), IntTok(I64(FALSE, <<0, 0, 9>>)), Tok("Semicolon"),
      IntTok(I64(FALSE, <<0, 0, 10>>)), Tok("Eq"),
      IntTok(I64(FALSE, <<0, 0, 10>>)), Tok("Semicolon"), EOF>>

Scenarios ==
    {TestInput,
     <<"\t">>, <<"\n">>, <<"\r">>, <<"\r", "\n">>, <<" ", "\t", "\r", "\n">>,
     <<"l", "e", "t", " ", "f", "i", "v", "e", " ", "=", " ", "5", ";">>,
     <<"1", "0", " ", "!", "=", " ", "9", ";">>,
     <<"5", " ", "<", " ", "1", "0", " ", ">", " ", "5", ";">>,
     <<" ", " ", " ", "\n", "\t", " ">>,
     <<"@">>,
     <<"f", "n">>,
     <<"l", "e", "t">>,
     <<"t", "r", "u", "e">>,
     <<"f", "a", "l", "s", "e">>,
     <<"i", "f">>,
     <<"e", "l", "s", "e">>,
     <<"r", "e", "t", "u", "r", "n">>,
     <<"r", "e", "t", "u", "r", "n", "s">>,
     <<"f", "n", "_", "x">>,
     <<"l", "e">>,
     <<"_", "l", "e", "t">>,
     <<"L", "e", "t">>,
     <<"<", "=", " ", ">", "=", " ", "=", "=", " ", "!", "=", " ", "<", " ", ">", " ", "!", " ", "=">>,
     <<",", ";", "(", ")", "{", "}", "+", "-", "*", "/">>,
     <<"x", "1">>,
     <<"5", "a", "b", "c">>,
     <<"-", "5">>,
     <<"0", "0", "7">>,
     <<"9", "2", "2", "3", "3", "7", "2", "0", "3", "6", "8", "5", "4", "7", "7", "5", "8", "0", "7">>,
     <<"9", "2", "2", "3", "3", "7", "2", "0", "3", "6", "8", "5", "4", "7", "7", "5", "8", "0", "8">>,
     <<"0", "0", "0", "0", "0", "0", "0", "0", "0", "0", "0", "0", "0", "0", "0", "0", "0", "0", "0", "0", "1", "2">>,
     <<"9", "9", "9", "9", "9", "9", "9", "9", "9", "9", "9", "9", "9", "9", "9", "9", "9", "9", "9", "9">>,
     <<Section, " ", "l", "e", "t">>,
     <<Section, "+", "1", "2">>,
     <<Section, "-", "1", "2">>,
     <<Section, " ", "1", "2">>,
     <<Section, "1", "2">>,
     <<Section, "+", "9", "2", "2", "3", "3", "7", "2", "0", "3", "6", "8", "5", "4", "7", "7", "5", "8", "0", "8">>,
     <<Section, " ", "x", "1">>,
     <<"i", "f", "0">>,
     <<EAcute, "<">>,
     <<"a", EAcute>>,
     <<EAcute, "a">>,
     <<"a", " ", EAcute>>,
     <<"<", EAcute>>,
     <<Euro, Euro, " ", "i", "f">>,
     <<Nbsp, " ", Nbsp, "l", "e", "t", Nbsp>>,
     <<Euro, "@">>,
     <<EAcute, "=", "=">>}

Inputs == Strings(MaxLen) \cup Scenarios

(***************************************************************************)
(* The state machine: one Lexer over one input, next_token called again    *)
(* and again.  tokens is the sequence of the tokens returned so far, prev  *)
(* the lexer as it was when the last call was made.  A panic ends the run. *)
(***************************************************************************)
Init ==
    /\ \E input \in Inputs : lexer = new(input)
    /\ tokens = <<>>
    /\ panicked = FALSE
    /\ prev = lexer
    /\ buffer = lexer.input
    /\ pc = "next_token"
    /\ printed = <<>>

\* one call of Lexer::next_token
NextToken ==
    /\ pc = "next_token"
    /\ ~panicked
    /\ Len(tokens) < Len(lexer.input) + ExtraCalls
    /\ LET r == next_token(lexer)
       IN  /\ lexer' = r.lexer
           /\ panicked' = r.panic
           /\ tokens' = IF r.panic THEN tokens ELSE Append(tokens, r.token)
    /\ prev' = lexer
    /\ UNCHANGED <<buffer, pc, printed>>

Next == NextToken

Spec == Init /\ [][Next]_vars

TypeOK ==
    /\ lexer.position \in Nat
    /\ lexer.read_position \in Nat
    /\ panicked \in BOOLEAN
    /\ Len(tokens) <= Len(lexer.input) + ExtraCalls

(***************************************************************************)
(* The REPL of src/src/repl.rs.  buffer is its line buffer s, pc where it   *)
(* stands ("read_line": about to prompt and read a line; "next_token": in  *)
(* the inner loop; "panicked": ended by a panic), printed the tokens       *)
(* printed for the line read last, tokens the tokens the calls on the      *)
(* Lexer of that line returned.  panicked tells whether a call of          *)
(* next_token panicked; the other panics of the REPL are the unwraps of    *)
(* flush and read_line and the println, on a failing stdout or stdin.      *)
(***************************************************************************)
LineAlphabet == {" ", "a", "1", "=", "@", NUL, EAcute, Section}

\* the text of a line, without its newline
LineTexts ==
    UNION {[1..k -> LineAlphabet] : k \in 0..MaxLineLen}
        \cup {i \in Scenarios : \A k \in 1..Len(i) : i[k] # "\n"}

\* what stdin().read_line may append to s: a line with its newline, or what
\* was left when stdin ended in mid-line, which is nothing when it ended at
\* the start of a line (a terminal may deliver more after an end of input)
Lines == {l \o <<"\n">> : l \in LineTexts} \cup LineTexts

\* the REPL before its first line: no Lexer yet (the variable holds one
\* over the empty buffer)
InitRepl ==
    /\ buffer = <<>>
    /\ pc = "read_line"
    /\ printed = <<>>
    /\ tokens = <<>>
    /\ panicked = FALSE
    /\ lexer = new(<<>>)
    /\ prev = lexer

\* the prompt, read_line appending a line to s, and Lexer::new(&s); the
\* unwrap of flush panics when stdout cannot be written and the unwrap of
\* read_line when stdin cannot be read or holds bytes that are not UTF-8;
\* s is then as it was, but for a read that failed behind the start of a
\* line, whose text read_line has appended to s
ReadLine ==
    /\ pc = "read_line"
    /\ \/ /\ \E line \in Lines :
                  /\ buffer' = buffer \o line
                  /\ lexer' = new(buffer \o line)
          /\ prev' = lexer'
          /\ tokens' = <<>>
          /\ printed' = <<>>
          /\ pc' = "next_token"
          /\ UNCHANGED panicked
       \/ /\ \E partial \in LineTexts : buffer' = buffer \o partial
          /\ pc' = "panicked"
          /\ UNCHANGED <<lexer, prev, tokens, printed, panicked>>

\* the inner loop once next_token has returned: println, which panics when
\* stdout cannot be written (written tells whether it can), then on EOF the
\* break and s.clear(), which lead back to read_line
repl_print(token, out, buf, written) ==
    IF ~written
    THEN [printed |-> out, buffer |-> buf, pc |-> "panicked"]
    ELSE IF token = EOF
    THEN [printed |-> Append(out, token), buffer |-> <<>>, pc |-> "read_line"]
    ELSE [printed |-> Append(out, token), buffer |-> buf, pc |-> "next_token"]

\* one turn of the inner loop
ReplToken ==
    /\ pc = "next_token"
    /\ LET r == next_token(lexer)
       IN  /\ lexer' = r.lexer
           /\ panicked' = r.panic
           /\ tokens' = IF r.panic THEN tokens ELSE Append(tokens, r.token)
           /\ IF r.panic
              THEN pc' = "panicked" /\ UNCHANGED <<buffer, printed>>
              ELSE \E written \in BOOLEAN :
                       LET q == repl_print(r.token, printed, buffer, written)
                       IN  /\ printed' = q.printed
                           /\ buffer' = q.buffer
                           /\ pc' = q.pc
    /\ prev' = lexer

NextRepl == ReadLine \/ ReplToken

SpecRepl == InitRepl /\ [][NextRepl]_vars

(***************************************************************************)
(* What the properties below speak of.                                     *)
(***************************************************************************)
\* next_token has been called at least once
called == panicked \/ tokens # <<>>

\* the lexer of the last call when it reached the match: prev, past the
\* whitespace
start == skip_whitespace(prev)

\* the last call returned a token
returned == ~panicked /\ tokens # <<>>

\* the token the last call returned
last == tokens[Len(tokens)]

\* the char of s at index k (from 0), the end sentinel past the end
CharAt(s, k) == IF k < Len(s) THEN s[k + 1] ELSE NUL

\* the index after the maximal run of chars of the set C that starts at
\* index i (from 1) of s
RunEnd(s, i, C) ==
    CHOOSE j \in i..(Len(s) + 1) :
        /\ \A k \in i..(j - 1) : s[k] \in C
        /\ j = Len(s) + 1 \/ s[j] \notin C

\* the maximal run of chars of C that starts at index i (from 1) of s
Run(s, i, C) == SubSeq(s, i, RunEnd(s, i, C) - 1)

WhitespaceChars == {" ", "\t", "\n", "\r"}
WordChars == AsciiLetters \cup {EAcute, "_"}
CompareChars == {"<", ">", "!", "="}

\* the decimal digits of i64::MAX
I64MaxDigits ==
    <<"9", "2", "2", "3", "3", "7", "2", "0", "3", "6",
      "8", "5", "4", "7", "7", "5", "8", "0", "7">>

\* the run of digits D without its leading zeros
Significant(D) ==
    SubSeq(D, RunEnd(D, 1, {"0"}), Len(D))

\* the value of the run of digits D is within the range of i64
DecFits(D) ==
    LET z == Significant(D)
    IN  \/ Len(z) < Len(I64MaxDigits)
        \/ /\ Len(z) = Len(I64MaxDigits)
           /\ \A i \in 1..Len(z) :
                  (\A j \in 1..(i - 1) : z[j] = I64MaxDigits[j])
                      => to_digit(z[i]) <= to_digit(I64MaxDigits[i])

\* the indexes (from 1) at which a maximal run of digits of s starts
DigitRunStarts(s) ==
    {i \in 1..Len(s) :
        s[i] \in AsciiDigits /\ (i = 1 \/ s[i - 1] \notin AsciiDigits)}

\* no integer literal of s overflows i64
NoOverflow(s) ==
    \A i \in DigitRunStarts(s) : DecFits(Run(s, i, AsciiDigits))

RECURSIVE DecValue(_)
\* the run of digits D read as a base-10 integer, on limbs
DecValue(D) ==
    IF D = <<>> THEN ZeroMag
    ELSE mul10_add(DecValue(SubSeq(D, 1, Len(D) - 1)), to_digit(D[Len(D)]))

(***************************************************************************)
(* C1.                                                                     *)
(***************************************************************************)
\* C1: once a call of next_token has returned EOF, every later call on the
\* same Lexer returns EOF too, whatever the input.
C1_EofIsSticky ==
    \A i \in 1..Len(tokens) : \A j \in i..Len(tokens) :
        tokens[i] = EOF => tokens[j] = EOF

(***************************************************************************)
(* C2.                                                                     *)
(***************************************************************************)
\* C2: on an input none of whose integer literals overflows i64, no call of
\* next_token panics.
C2_OnlyOverflowPanics == NoOverflow(lexer.input) => ~panicked

(***************************************************************************)
(* C3.  The reference tokenization of a string, read off the string alone. *)
(***************************************************************************)
RefTwo(c) ==
    CASE c = "<" -> Tok("LTE") [] c = ">" -> Tok("GTE")
      [] c = "!" -> Tok("NotEq") [] c = "=" -> Tok("Eq")

RefOne(c) ==
    CASE c = "<" -> Tok("LT") [] c = ">" -> Tok("GT")
      [] c = "!" -> Tok("Bang") [] c = "=" -> Tok("Assign")
      [] c = "," -> Tok("Comma") [] c = ";" -> Tok("Semicolon")
      [] c = "(" -> Tok("LParen") [] c = ")" -> Tok("RParen")
      [] c = "{" -> Tok("LBrace") [] c = "}" -> Tok("RBrace")
      [] c = "+" -> Tok("Plus") [] c = "-" -> Tok("Minus")
      [] c = "*" -> Tok("Asterisk") [] c = "/" -> Tok("Slash")

\* the reserved spellings, each with the type of its keyword token
Reserved ==
    {<<(<<"f", "n">>), "Function">>,
     <<(<<"l", "e", "t">>), "Let">>,
     <<(<<"t", "r", "u", "e">>), "True">>,
     <<(<<"f", "a", "l", "s", "e">>), "False">>,
     <<(<<"i", "f">>), "If">>,
     <<(<<"e", "l", "s", "e">>), "Else">>,
     <<(<<"r", "e", "t", "u", "r", "n">>), "Return">>}

ReservedSpellings == {r[1] : r \in Reserved}

\* the token of a word run: its keyword, or else Ident of the run
RefWord(w) ==
    IF w \in ReservedSpellings
    THEN Tok((CHOOSE r \in Reserved : r[1] = w)[2])
    ELSE Ident(w)

\* the reference token that starts at index i (from 1) of s, not whitespace
RefToken(s, i) ==
    CASE s[i] \in CompareChars /\ i < Len(s) /\ s[i + 1] = "=" -> RefTwo(s[i])
      [] s[i] \in CompareChars /\ ~(i < Len(s) /\ s[i + 1] = "=") -> RefOne(s[i])
      [] s[i] \in Singles -> RefOne(s[i])
      [] s[i] \in AsciiLetters -> RefWord(Run(s, i, AsciiLetters \cup {"_"}))
      [] s[i] \in AsciiDigits ->
             IntTok(I64(FALSE, DecValue(Run(s, i, AsciiDigits))))
      [] OTHER -> Illegal

\* the index after the reference token that starts at index i of s
RefTokenEnd(s, i) ==
    CASE s[i] \in CompareChars /\ i < Len(s) /\ s[i + 1] = "=" -> i + 2
      [] s[i] \in AsciiLetters -> RunEnd(s, i, AsciiLetters \cup {"_"})
      [] s[i] \in AsciiDigits -> RunEnd(s, i, AsciiDigits)
      [] OTHER -> i + 1

RECURSIVE RefTokens(_, _)
\* the reference tokens of s from index i (from 1) on
RefTokens(s, i) ==
    IF RunEnd(s, i, WhitespaceChars) > Len(s) THEN <<EOF>>
    ELSE <<RefToken(s, RunEnd(s, i, WhitespaceChars))>>
             \o RefTokens(s, RefTokenEnd(s, RunEnd(s, i, WhitespaceChars)))

\* the characters C3 is about
C3Chars ==
    WhitespaceChars \cup AsciiLetters \cup {"_"} \cup AsciiDigits
        \cup Singles \cup CompareChars

InC3(s) == (\A i \in 1..Len(s) : s[i] \in C3Chars) /\ NoOverflow(s)

\* the tokens returned so far are the first tokens of the sequence ref
StartOf(ref) ==
    \A i \in 1..Len(tokens) : i <= Len(ref) => tokens[i] = ref[i]

LetFive ==
    <<"l", "e", "t", " ", "f", "i", "v", "e", " ", "=", " ", "5", ";">>

LetFiveTokens ==
    <<Tok("Let"), Ident(<<"f", "i", "v", "e">>), Tok("Assign"),
      IntTok(I64(FALSE, <<0, 0, 5>>)), Tok("Semicolon"), EOF>>

\* C3: on an ASCII input of whitespace, letters, underscores, digits and the
\* operator and punctuation characters, without an overflowing literal, the
\* calls return, one by one, the reference tokenization of the input up to
\* its EOF; `let five = 5;` gives Let, Ident(five), Assign, Int(5),
\* Semicolon, EOF, and the input of tests::it_works the tokens it expects.
C3_ReferenceTokenization ==
    /\ InC3(lexer.input) =>
           ~panicked /\ StartOf(RefTokens(lexer.input, 1))
    /\ lexer.input = LetFive => ~panicked /\ StartOf(LetFiveTokens)
    /\ lexer.input = TestInput => ~panicked /\ StartOf(ParsedCorrectly)

\* the six tokens of `let five = 5;` have been returned
C3_Witness ==
    /\ lexer.input = LetFive
    /\ InC3(lexer.input)
    /\ tokens = RefTokens(lexer.input, 1)
    /\ tokens = LetFiveTokens

(***************************************************************************)
(* C4.                                                                     *)
(***************************************************************************)
\* C4: on an input without an overflowing literal the calls come to return
\* EOF (a run that has ended, or has made more calls than the input has
\* chars, has returned it), the first EOF comes after at most as many calls
\* as the input has chars, and a call that returns another token leaves
\* the cursor at least one char further.
C4_EofWithinLength ==
    NoOverflow(lexer.input) =>
        /\ (panicked \/ Len(tokens) > Len(lexer.input)) =>
               \E i \in 1..Len(tokens) : tokens[i] = EOF
        /\ \A i \in 1..Len(tokens) :
               (\A j \in 1..(i - 1) : tokens[j] # EOF) =>
                   i - 1 <= Len(lexer.input)
        /\ (returned /\ last # EOF) => lexer.position >= prev.position + 1

(***************************************************************************)
(* C5.                                                                     *)
(***************************************************************************)
\* C5: a call that reaches an alphabetic char returns the token of the word
\* run that starts there: the keyword token of a reserved spelling, and
\* otherwise Ident with exactly the chars of the run.
C5_WordToken ==
    (called /\ is_alphabetic(start.ch)) =>
        /\ returned
        /\ last = RefWord(Run(lexer.input, start.position + 1, WordChars))

(***************************************************************************)
(* C6.                                                                     *)
(***************************************************************************)
\* C6: a call that reaches < > ! or = returns the two-character token and
\* moves the cursor two chars on when the next char of the input is '=',
\* and returns the one-character token and moves the cursor one char on
\* when it is anything else or the input ends there.
C6_CompareToken ==
    (called /\ start.ch \in CompareChars) =>
        /\ returned
        /\ IF CharAt(lexer.input, start.position + 1) = "="
           THEN last = RefTwo(start.ch)
                    /\ lexer.position = start.position + 2
           ELSE last = RefOne(start.ch)
                    /\ lexer.position = start.position + 1

(***************************************************************************)
(* C7.                                                                     *)
(***************************************************************************)
\* the maximal run of digits at the cursor of the last call
DigitRun == Run(lexer.input, start.position + 1, AsciiDigits)

\* C7: a call that reaches a maximal run of digits whose value is within
\* i64 returns Int of the run read in base 10 and moves the cursor on by
\* the length of the run.
C7_IntToken ==
    (/\ called
     /\ is_digit(start.ch)
     /\ start.position + 1 \in DigitRunStarts(lexer.input)
     /\ DecFits(DigitRun)) =>
        /\ returned
        /\ last = IntTok(I64(FALSE, DecValue(DigitRun)))
        /\ lexer.position = start.position + Len(DigitRun)

(***************************************************************************)
(* C8.                                                                     *)
(***************************************************************************)
\* the char at the cursor of the last call is one of the fallback arm
AtIllegal ==
    /\ called
    /\ start.ch \notin Singles \cup CompareChars
    /\ ~is_alphabetic(start.ch)
    /\ ~is_digit(start.ch)
    /\ start.ch # NUL

\* C8: a call that reaches a char that is no operator or punctuation char
\* of the language, not alphabetic, no digit and not the end sentinel
\* returns Illegal and moves the cursor exactly one char on, to the next
\* char of the input.
C8_IllegalAdvancesOne ==
    AtIllegal =>
        /\ returned
        /\ last = Illegal
        /\ lexer.position = start.position + 1
        /\ lexer.ch = CharAt(lexer.input, start.position + 1)

\* Illegal was returned for a three-byte char, and the cursor is on the
\* char after it
C8_Witness ==
    /\ AtIllegal
    /\ start.ch = Euro
    /\ returned
    /\ last = Illegal
    /\ lexer.ch = "@"

(***************************************************************************)
(* C9.                                                                     *)
(***************************************************************************)
\* C9: no Ident token returned carries a reserved spelling.
C9_IdentNeverReserved ==
    \A i \in 1..Len(tokens) :
        tokens[i].type = "Ident" => tokens[i].text \notin ReservedSpellings

\* an Ident token was returned on `let` behind a two-byte char and a
\* space: the slice taken is " le", not the reserved spelling
C9_Witness ==
    /\ lexer.input = <<Section, " ", "l", "e", "t">>
    /\ returned
    /\ last = Ident(<<" ", "l", "e">>)

(***************************************************************************)
(* C10.                                                                    *)
(***************************************************************************)
\* the input holds nothing but space, tab, newline and carriage return
OnlyWhitespace(s) == \A i \in 1..Len(s) : s[i] \in WhitespaceChars

\* C10: on an input of whitespace alone, the empty input too, the first
\* call returns EOF.
C10_WhitespaceOnlyIsEof ==
    OnlyWhitespace(lexer.input) =>
        /\ ~panicked
        /\ tokens # <<>> => tokens[1] = EOF

\* the first call on "   \n\t " returned EOF
C10_Witness ==
    /\ lexer.input = <<" ", " ", " ", "\n", "\t", " ">>
    /\ tokens = <<EOF>>

(***************************************************************************)
(* C11.                                                                    *)
(***************************************************************************)
\* C11: every Int token returned carries a value >= 0, and a call that
\* reaches '-' returns Minus and moves the cursor one char on, so that a
\* run of digits behind it is a token of its own.
C11_IntNonNegative ==
    /\ \A i \in 1..Len(tokens) :
           tokens[i].type = "Int" => ~tokens[i].val.neg
    /\ (called /\ start.ch = "-") =>
           /\ returned
           /\ last = Tok("Minus")
           /\ lexer.position = start.position + 1

(***************************************************************************)
(* C14.                                                                    *)
(***************************************************************************)
\* C14: a call made with the end sentinel as the current char returns EOF
\* and leaves position, read_position and ch as they were before the call.
C14_EofDoesNotAdvance ==
    (called /\ prev.ch = NUL) =>
        /\ returned
        /\ last = EOF
        /\ lexer.position = prev.position
        /\ lexer.read_position = prev.read_position
        /\ lexer.ch = prev.ch

(***************************************************************************)
(* C16.                                                                    *)
(***************************************************************************)
\* C16: right after Lexer::new(input), position is 0, read_position is 1
\* and ch is the first char of the input, the end sentinel on the empty
\* input.
C16_AfterNew ==
    ~called =>
        /\ lexer.position = 0
        /\ lexer.read_position = 1
        /\ lexer.ch = IF lexer.input = <<>> THEN NUL ELSE lexer.input[1]

\* a fresh Lexer over an input that opens with a two-byte char
C16_Witness ==
    /\ ~called
    /\ lexer.input = <<EAcute, "<">>
    /\ lexer.ch = EAcute

(***************************************************************************)
(* C17.                                                                    *)
(***************************************************************************)
\* C17: read_position = position + 1 in every state from Lexer::new on,
\* calls after EOF included.
C17_ReadPositionIsNext == lexer.read_position = lexer.position + 1

\* two calls have returned EOF and the cursor is past the end of the input
C17_Witness ==
    /\ Len(tokens) >= 2
    /\ tokens[Len(tokens) - 1] = EOF
    /\ last = EOF
    /\ lexer.position > Len(lexer.input)

(***************************************************************************)
(* C18.                                                                    *)
(***************************************************************************)
\* C18: ch is the char of the input at index position when position is
\* less than the number of chars of the input, the end sentinel otherwise.
C18_ChIsCharAtPosition ==
    lexer.ch = IF lexer.position < Len(lexer.input)
               THEN lexer.input[lexer.position + 1]
               ELSE NUL

\* the cursor is on a char behind a two-byte char, after a call
C18_Witness ==
    /\ returned
    /\ lexer.input = <<Section, " ", "l", "e", "t">>
    /\ lexer.position = 1
    /\ lexer.ch = " "

(***************************************************************************)
(* C15.                                                                    *)
(***************************************************************************)
\* C15: a call that reaches a maximal run of digits whose value is beyond
\* the range of i64 panics and returns no token.
C15_OverflowPanics ==
    (/\ called
     /\ is_digit(start.ch)
     /\ start.position + 1 \in DigitRunStarts(lexer.input)
     /\ ~DecFits(DigitRun)) =>
        panicked

(***************************************************************************)
(* C19.                                                                    *)
(***************************************************************************)
WordTypes ==
    {"Ident", "Function", "Let", "True", "False", "If", "Else", "Return"}

\* the index (from 0) of the char behind the word run at the cursor of the
\* last call
AfterWord == RunEnd(lexer.input, start.position + 1, WordChars) - 1

\* the index (from 0) of the char behind the digit run at the cursor of the
\* last call
AfterDigits == RunEnd(lexer.input, start.position + 1, AsciiDigits) - 1

\* C19: a call that reaches a word run with a digit right behind it returns
\* Ident or a keyword and leaves the cursor on that digit, so that the next
\* call returns Int; a call that reaches a digit run with a letter right
\* behind it returns Int and leaves the cursor on that letter; and behind a
\* word token the current char is neither alphabetic nor '_', behind an Int
\* token no digit.
C19_WordsAndDigitsApart ==
    /\ (called /\ is_alphabetic(start.ch)
            /\ is_digit(CharAt(lexer.input, AfterWord))) =>
           /\ returned
           /\ last.type \in WordTypes
           /\ lexer.position = AfterWord
           /\ is_digit(lexer.ch)
    /\ (called /\ is_digit(start.ch)
            /\ is_alphabetic(CharAt(lexer.input, AfterDigits))
            /\ DecFits(DigitRun)) =>
           /\ returned
           /\ last.type = "Int"
           /\ lexer.position = AfterDigits
           /\ is_alphabetic(lexer.ch)
    /\ (returned /\ last.type \in WordTypes) =>
           ~(is_alphabetic(lexer.ch) \/ lexer.ch = "_")
    /\ (returned /\ last.type = "Int") => ~is_digit(lexer.ch)

(***************************************************************************)
(* C12.                                                                    *)
(***************************************************************************)
\* the number of EOF tokens in the sequence t
EofCount(t) == Cardinality({i \in 1..Len(t) : t[i] = EOF})

\* C12: the REPL lexes each line with one fresh Lexer over the buffer and
\* leaves the inner loop exactly at EOF, for every line it reads: the loop
\* is not ended by a panic of next_token (a panic of the REPL's own reads
\* and writes, on a failing stdin or stdout, is not one of the line's
\* steps); inside the loop no EOF has been printed or
\* returned yet; when the next line is about to be read the tokens printed
\* for the last line end with their only EOF, every token the Lexer
\* returned was printed and none was asked for after the EOF, and the
\* buffer is empty.
C12_ReplStopsAtEof ==
    /\ ~panicked
    /\ pc = "next_token" =>
           /\ lexer.input = buffer
           /\ printed = tokens
           /\ EofCount(printed) = 0
           /\ tokens = <<>> => lexer = new(buffer)
    /\ pc = "read_line" =>
           /\ buffer = <<>>
           /\ printed = tokens
           /\ printed # <<>> =>
                  printed[Len(printed)] = EOF /\ EofCount(printed) = 1

====
